---- MODULE Spec2Model ----
(***************************************************************************)
(* Model of create-nodality (bin/index.js): the project generator that     *)
(* checks the target path, creates the project tree, writes four template  *)
(* files and runs `npm install` and `npm run build`.                       *)
(*                                                                         *)
(* Text is a sequence of tokens.  A character of the project name is a     *)
(* one-character token; a literal piece of a template is one token.  A     *)
(* path is a sequence of segments below the filesystem root, a segment is  *)
(* a sequence of tokens.                                                   *)
(***************************************************************************)
EXTENDS Integers, Sequences, FiniteSets, TLC

\* ------------------------------------------------------------------ bounds
MaxLen == 3
MaxRuns == 2

\* Characters a project name is drawn from: a plain character, the path
\* separator, the dot of "." and "..", and the double quote (which
\* JSON.stringify must escape).
Alphabet == {"a", "/", ".", "\""}

Procs == 1..MaxRuns

RECURSIVE SeqsUpTo(_)
SeqsUpTo(n) ==
  IF n = 0 THEN {<<>>}
  ELSE LET S == SeqsUpTo(n - 1)
       IN  S \cup {Append(s, c) : s \in {t \in S : Len(t) = n - 1}, c \in Alphabet}

Names == SeqsUpTo(MaxLen)

\* process.argv.slice(2): no argument, or one argument (possibly empty)
Argvs == {<<>>} \cup {<<n>> : n \in Names}

\* Exit statuses the npm subprocesses may return
Statuses == {0, 1, 2}

\* ------------------------------------------------------------ path.resolve
Cwd == << <<"w">> >>

\* name.split("/")
RECURSIVE SplitFrom(_, _, _)
SplitFrom(s, i, cur) ==
  IF i > Len(s) THEN <<cur>>
  ELSE IF s[i] = "/" THEN <<cur>> \o SplitFrom(s, i + 1, <<>>)
  ELSE SplitFrom(s, i + 1, Append(cur, s[i]))

Split(s) == SplitFrom(s, 1, <<>>)

\* normalisation of the joined path: "" and "." are dropped, ".." pops
RECURSIVE Normalize(_, _)
Normalize(base, segs) ==
  IF segs = <<>> THEN base
  ELSE LET h == Head(segs)
           b == IF h = <<>> \/ h = <<".">> THEN base
                ELSE IF h = <<".", ".">>
                     THEN (IF base = <<>> THEN base ELSE SubSeq(base, 1, Len(base) - 1))
                     ELSE Append(base, h)
       IN  Normalize(b, Tail(segs))

\* path.resolve(from, to): an absolute `to` replaces `from`, an empty `to`
\* is skipped
resolve(from, to) ==
  IF to = <<>> THEN from
  ELSE IF to[1] = "/" THEN Normalize(<<>>, Split(to))
  ELSE Normalize(from, Split(to))

\* ---------------------------------------------------------------- the disk
Parent(p) == SubSeq(p, 1, Len(p) - 1)

Dir == [kind |-> "dir", content |-> <<>>]
File(c) == [kind |-> "file", content |-> c]

\* fs.existsSync(p)
existsSync(disk, p) == p \in DOMAIN disk

\* Mutant of MkdirErr: mkdirSync(p, { recursive: true }), which accepts an
\* existing directory and creates missing parents
MkdirErr_Recursive(disk, p) ==
  IF \E k \in 0..Len(p) :
       SubSeq(p, 1, k) \in DOMAIN disk /\ disk[SubSeq(p, 1, k)].kind = "file"
  THEN "EEXIST"
  ELSE ""

\* errno of fs.mkdirSync(p) without { recursive: true }; "" when it succeeds
MkdirErr(disk, p) ==
  IF p \in DOMAIN disk THEN "EEXIST"
  ELSE IF \E k \in 0..(Len(p) - 1) :
            SubSeq(p, 1, k) \in DOMAIN disk /\ disk[SubSeq(p, 1, k)].kind = "file"
       THEN "ENOTDIR"
  ELSE IF Parent(p) \notin DOMAIN disk THEN "ENOENT"
  ELSE ""

\* errno of fs.writeFileSync(p, data); "" when it succeeds
WriteErr(disk, p) ==
  IF p \in DOMAIN disk /\ disk[p].kind = "dir" THEN "EISDIR"
  ELSE IF \E k \in 0..(Len(p) - 1) :
            SubSeq(p, 1, k) \in DOMAIN disk /\ disk[SubSeq(p, 1, k)].kind = "file"
       THEN "ENOTDIR"
  ELSE IF Parent(p) \notin DOMAIN disk THEN "ENOENT"
  ELSE ""

Put(disk, p, e) == [q \in DOMAIN disk \cup {p} |-> IF q = p THEN e ELSE disk[q]]

\* ------------------------------------------------------------- templates

\* The template literal of index.html, before .trim(): it opens with a line
\* break and closes with a line break and two spaces.
indexHtml(projectName) ==
  << "\n",
     "<!DOCTYPE html>\n<html lang=\"en\">\n<head>\n  <meta charset=\"UTF-8\">\n  <meta name=\"viewport\" content=\"width=device-width, initial-scale=1.0\">\n  ",
     "<title>" >>
  \o projectName \o
  << "</title>",
     "\n\n  <!-- importmap to map \"nodality\" to node_modules path -->\n  <script type=\"importmap\">\n  {\n    \"imports\": {\n      \"nodality\": \"/node_modules/nodality/dist/index.esm.js\"\n    }\n  }\n  </script>\n</head>\n<body>\n  <div id=\"mount\"></div>\n\n  <!-- User app -->\n  <script type=\"module\" src=\"src/app.js\"></script>\n</body>\n</html>",
     "\n", "  " >>

\* the template literal of src/app.js, before .trim()
appJs ==
  << "\n",
     "import { Des } from \"nodality\";           \n\nconst elements = [\n  { type: \"h1\", text: \"Hello\" }\n];\n\nconst nodes = [\n  { op: \"blast\" }\n];\n\nnew Des()\n  .nodes(nodes)\n  .add(elements)\n  .set({\n    mount: \"#mount\",\n    code: true,\n  });",
     "\n", "  " >>

\* the template literal of webpack.config.js, before .trim()
webpackConfig ==
  << "\n",
     "import path from \"path\";\nimport { fileURLToPath } from \"url\";\n\nconst __filename = fileURLToPath(import.meta.url);\nconst __dirname = path.dirname(__filename);\n\nexport default {\n  mode: \"production\",\n  entry: \"nodality\",               // bundle Nodality only\n  output: {\n    path: path.resolve(__dirname, \"dist\"),\n    filename: \"lib.bundle.js\",\n    library: { type: \"module\" },   // ESM output\n    environment: { module: true },\n    clean: true,\n    publicPath: \"/\",\n  },\n  experiments: { outputModule: true },\n  module: {\n    rules: [\n      {\n        test: /\\.m?js$/,\n        exclude: /node_modules/,\n        use: { loader: \"babel-loader\", options: { presets: [\"@babel/preset-env\"] } },\n      },\n    ],\n  },\n};",
     "\n", "  " >>

\* String.prototype.trim(): white space is removed from both ends
IsSpace(t) == t \in {"\n", " ", "  ", "\t"}

RECURSIVE TrimStart(_)
TrimStart(s) ==
  IF s # <<>> /\ IsSpace(Head(s)) THEN TrimStart(Tail(s)) ELSE s

RECURSIVE TrimEnd(_)
TrimEnd(s) ==
  IF s # <<>> /\ IsSpace(s[Len(s)]) THEN TrimEnd(SubSeq(s, 1, Len(s) - 1)) ELSE s

trim(s) == TrimEnd(TrimStart(s))

\* ------------------------------------------------------------------- JSON
\* A JSON value of the manifest is a string or an object whose members keep
\* their insertion order.
Str(s) == [t |-> "str", s |-> s, m |-> <<>>]
Obj(m) == [t |-> "obj", s |-> <<>>, m |-> m]
Member(k, v) == [k |-> k, v |-> v]

\* Mutant of pkg: the dev script is missing
pkg_NoDevScript(projectName) ==
  Obj(<< Member(<<"name">>, Str(projectName)),
         Member(<<"version">>, Str(<<"1.0.0">>)),
         Member(<<"type">>, Str(<<"module">>)),
         Member(<<"scripts">>, Obj(<<
           Member(<<"build">>, Str(<<"webpack --config webpack.config.js">>)),
           Member(<<"watch">>, Str(<<"webpack --watch --config webpack.config.js">>)),
           Member(<<"start">>, Str(<<"live-server . --port=4000 --watch=dist,src">>)) >>)),
         Member(<<"dependencies">>, Obj(<<
           Member(<<"nodality">>, Str(<<"latest">>)) >>)),
         Member(<<"devDependencies">>, Obj(<<
           Member(<<"@babel/core">>, Str(<<"^", "7.28.4">>)),
           Member(<<"@babel/preset-env">>, Str(<<"^", "7.28.3">>)),
           Member(<<"babel-loader">>, Str(<<"^", "9.2.1">>)),
           Member(<<"live-server">>, Str(<<"^", "1.2.2">>)),
           Member(<<"npm-run-all">>, Str(<<"^", "4.1.5">>)),
           Member(<<"serve">>, Str(<<"^", "14.0.0">>)),
           Member(<<"webpack">>, Str(<<"^", "5.101.3">>)),
           Member(<<"webpack-cli">>, Str(<<"^", "5.1.4">>)),
           Member(<<"webpack-dev-server">>, Str(<<"^", "5.2.2">>)) >>)) >>)

\* the object literal `pkg`
pkg(projectName) ==
  Obj(<< Member(<<"name">>, Str(projectName)),
         Member(<<"version">>, Str(<<"1.0.0">>)),
         Member(<<"type">>, Str(<<"module">>)),
         Member(<<"scripts">>, Obj(<<
           Member(<<"build">>, Str(<<"webpack --config webpack.config.js">>)),
           Member(<<"watch">>, Str(<<"webpack --watch --config webpack.config.js">>)),
           Member(<<"start">>, Str(<<"live-server . --port=4000 --watch=dist,src">>)),
           Member(<<"dev">>, Str(<<"npm-run-all --parallel watch start">>)) >>)),
         Member(<<"dependencies">>, Obj(<<
           Member(<<"nodality">>, Str(<<"latest">>)) >>)),
         Member(<<"devDependencies">>, Obj(<<
           Member(<<"@babel/core">>, Str(<<"^", "7.28.4">>)),
           Member(<<"@babel/preset-env">>, Str(<<"^", "7.28.3">>)),
           Member(<<"babel-loader">>, Str(<<"^", "9.2.1">>)),
           Member(<<"live-server">>, Str(<<"^", "1.2.2">>)),
           Member(<<"npm-run-all">>, Str(<<"^", "4.1.5">>)),
           Member(<<"serve">>, Str(<<"^", "14.0.0">>)),
           Member(<<"webpack">>, Str(<<"^", "5.101.3">>)),
           Member(<<"webpack-cli">>, Str(<<"^", "5.1.4">>)),
           Member(<<"webpack-dev-server">>, Str(<<"^", "5.2.2">>)) >>)) >>)

\* Mutant of EscapeJSON: the string is put between the quotes as it is
EscapeJSON_None(s) == s

\* QuoteJSONString: the quotation mark and the reverse solidus are escaped
RECURSIVE EscapeJSON(_)
EscapeJSON(s) ==
  IF s = <<>> THEN <<>>
  ELSE (IF Head(s) \in {"\"", "\\"} THEN <<"\\", Head(s)>> ELSE <<Head(s)>>)
       \o EscapeJSON(Tail(s))

QuoteJSON(s) == <<"\"">> \o EscapeJSON(s) \o <<"\"">>

\* the gap of JSON.stringify(value, null, 2), repeated once per level
RECURSIVE Indent(_)
Indent(depth) == IF depth = 0 THEN <<>> ELSE <<"  ">> \o Indent(depth - 1)

RECURSIVE Stringify(_, _)
RECURSIVE StringifyMembers(_, _, _)
StringifyMembers(m, i, depth) ==
  IF i > Len(m) THEN <<>>
  ELSE Indent(depth) \o QuoteJSON(m[i].k) \o <<":", " ">>
       \o Stringify(m[i].v, depth)
       \o (IF i < Len(m) THEN <<",">> ELSE <<>>) \o <<"\n">>
       \o StringifyMembers(m, i + 1, depth)

\* JSON.stringify(value, null, 2) at nesting level `depth`
Stringify(v, depth) ==
  IF v.t = "str" THEN QuoteJSON(v.s)
  ELSE IF v.m = <<>> THEN <<"{", "}">>
  ELSE <<"{", "\n">> \o StringifyMembers(v.m, 1, depth + 1) \o Indent(depth) \o <<"}">>

JSONstringify(v) == Stringify(v, 0)

\* JSON.parse: a parse result is [ok, v, next]; ok is FALSE on a SyntaxError
Bad == [ok |-> FALSE, v |-> Str(<<>>), next |-> 0]

RECURSIVE SkipWs(_, _)
SkipWs(toks, i) ==
  IF i <= Len(toks) /\ IsSpace(toks[i]) THEN SkipWs(toks, i + 1) ELSE i

\* the characters of a string literal, from the token after the opening quote
RECURSIVE ParseChars(_, _, _)
ParseChars(toks, i, acc) ==
  IF i > Len(toks) \/ toks[i] = "\n" THEN Bad
  ELSE IF toks[i] = "\"" THEN [ok |-> TRUE, v |-> Str(acc), next |-> i + 1]
  ELSE IF toks[i] = "\\"
       THEN (IF i + 1 <= Len(toks) /\ toks[i + 1] \in {"\"", "\\", "/"}
             THEN ParseChars(toks, i + 2, Append(acc, toks[i + 1]))
             ELSE Bad)
  ELSE ParseChars(toks, i + 1, Append(acc, toks[i]))

ParseString(toks, i) ==
  IF i <= Len(toks) /\ toks[i] = "\"" THEN ParseChars(toks, i + 1, <<>>) ELSE Bad

RECURSIVE ParseValue(_, _)
RECURSIVE ParseMembers(_, _, _)
\* the members of an object, from the token after "{" or after ","
ParseMembers(toks, i, acc) ==
  LET key == ParseString(toks, SkipWs(toks, i))
      c == SkipWs(toks, key.next)
      val == ParseValue(toks, c + 1)
      e == SkipWs(toks, val.next)
      \* a repeated key replaces the earlier value and keeps its position
      add == IF \E j \in 1..Len(acc) : acc[j].k = key.v.s
             THEN [j \in 1..Len(acc) |->
                     IF acc[j].k = key.v.s THEN Member(key.v.s, val.v) ELSE acc[j]]
             ELSE Append(acc, Member(key.v.s, val.v))
  IN  IF ~key.ok \/ c > Len(toks) \/ toks[c] # ":" THEN Bad
      ELSE IF ~val.ok \/ e > Len(toks) THEN Bad
      ELSE IF toks[e] = "}" THEN [ok |-> TRUE, v |-> Obj(add), next |-> e + 1]
      ELSE IF toks[e] = "," THEN ParseMembers(toks, e + 1, add)
      ELSE Bad

ParseValue(toks, i) ==
  LET j == SkipWs(toks, i)
  IN  IF j > Len(toks) THEN Bad
      ELSE IF toks[j] = "\"" THEN ParseString(toks, j)
      ELSE IF toks[j] = "{"
           THEN (IF SkipWs(toks, j + 1) <= Len(toks) /\ toks[SkipWs(toks, j + 1)] = "}"
                 THEN [ok |-> TRUE, v |-> Obj(<<>>), next |-> SkipWs(toks, j + 1) + 1]
                 ELSE ParseMembers(toks, j + 1, <<>>))
      ELSE Bad

\* JSON.parse(text): one value, then only white space
JSONparse(toks) ==
  LET r == ParseValue(toks, 1)
  IN  IF r.ok /\ SkipWs(toks, r.next) > Len(toks) THEN r ELSE Bad

\* property access on a parsed object: obj[key]
HasKey(v, key) == v.t = "obj" /\ \E j \in 1..Len(v.m) : v.m[j].k = key
Get(v, key) == v.m[CHOOSE j \in 1..Len(v.m) : v.m[j].k = key].v
Keys(v) == {v.m[j].k : j \in 1..Len(v.m)}

\* ------------------------------------------------------------------ state
VARIABLES
  disk,   \* the filesystem: path -> [kind, content]
  pc,     \* per invocation: the statement it is at
  argv,   \* per invocation: process.argv.slice(2)
  ops,    \* per invocation: the fs and child_process calls made so far
  out,    \* per invocation: what was printed, [stream, text]
  exit    \* per invocation: <<>> while running, <<code>> once terminated

vars == <<disk, pc, argv, ops, out, exit>>

Root == <<>>
DirA == Cwd \o << <<"a">> >>

\* The working directory before the first invocation: empty, or holding an
\* entry named "a" that is a file or an empty directory.
InitDisks ==
  LET base == (Root :> Dir) @@ (Cwd :> Dir)
  IN  { base,
        base @@ (DirA :> File(<<"x">>)),
        base @@ (DirA :> Dir) }

Init ==
  /\ disk \in InitDisks
  /\ pc = [p \in Procs |-> "idle"]
  /\ argv = [p \in Procs |-> <<>>]
  /\ ops = [p \in Procs |-> <<>>]
  /\ out = [p \in Procs |-> <<>>]
  /\ exit = [p \in Procs |-> <<>>]

Call(op, path, cmd, err, val) ==
  [op |-> op, path |-> path, cmd |-> cmd, err |-> err, val |-> val]

Line(stream, text) == [stream |-> stream, text |-> text]

projectName(p) == argv[p][1]
projectPath(p) == resolve(Cwd, projectName(p))
srcPath(p) == resolve(projectPath(p), <<"s", "r", "c">>)

\* the path of a file of the project: resolve(dir, "<one segment>")
Under(dir, file) == Append(dir, <<file>>)

\* process.exit(code), and the end of the script (code 0)
Exits(p, code) ==
  /\ pc' = [pc EXCEPT ![p] = "exited"]
  /\ exit' = [exit EXCEPT ![p] = <<code>>]

\* An exception nobody catches: node prints it on stderr and the process
\* ends with exit code 1.
Throws(p, err) ==
  /\ out' = [out EXCEPT ![p] = Append(@, Line("stderr", <<"Uncaught Error: ", err>>))]
  /\ Exits(p, 1)

\* --------------------------------------------------------- bin/index.js
\* Mutant of NoName: only a missing argument counts (args.length === 0)
NoName_OnlyMissing(args) == args = <<>>

\* !args[0]: no first argument, or an empty one
NoName(args) == IF args = <<>> THEN TRUE ELSE args[1] = <<>>

\* The script body: the process starts with `args` on its command line,
\* prints the usage and exits when the name is missing, and calls
\* createProject(args[0]) otherwise.
Main(p, args) ==
  /\ pc[p] = "idle"
  /\ argv' = [argv EXCEPT ![p] = args]
  /\ IF NoName(args)
     THEN /\ out' = [out EXCEPT ![p] =
                       Append(@, Line("stderr", <<"Usage: npm create nodality <project-name>">>))]
          /\ Exits(p, 1)
     ELSE /\ pc' = [pc EXCEPT ![p] = "createProject"]
          /\ UNCHANGED <<out, exit>>
  /\ UNCHANGED <<disk, ops>>

\* The tool is run, and run again with the same arguments once the previous
\* run has terminated.
RunInARow(p) ==
  /\ \A q \in Procs : q < p => pc[q] = "exited"
  /\ \E args \in (IF p = 1 THEN Argvs ELSE {argv[p - 1]}) : Main(p, args)

\* A pair of invocations started with the same arguments, the second while
\* the first may still be running.
Pair == {1, 2}

RunConcurrently(p) ==
  LET started == {q \in Pair : pc[q] # "idle"}
  IN  \E args \in (IF started = {} THEN Argvs ELSE {argv[q] : q \in started}) :
        Main(p, args)

FolderExistsMessage(name) == <<"Folder ">> \o name \o <<" already exists.">>

\* Mutant of CheckExists: the error is printed but process.exit(1) is missing
CheckExists_NoExit(p) ==
  /\ pc[p] = "createProject"
  /\ LET found == existsSync(disk, projectPath(p))
     IN  /\ ops' = [ops EXCEPT ![p] =
                      Append(@, Call("existsSync", projectPath(p), <<>>, "",
                                     IF found THEN 1 ELSE 0))]
         /\ out' = [out EXCEPT ![p] =
                      IF found
                      THEN Append(@, Line("stderr", FolderExistsMessage(projectName(p))))
                      ELSE @]
  /\ pc' = [pc EXCEPT ![p] = "mkdirProject"]
  /\ UNCHANGED <<disk, argv, exit>>

CheckExists(p) ==
  /\ pc[p] = "createProject"
  /\ LET found == existsSync(disk, projectPath(p))
     IN  /\ ops' = [ops EXCEPT ![p] =
                      Append(@, Call("existsSync", projectPath(p), <<>>, "",
                                     IF found THEN 1 ELSE 0))]
         /\ IF found
            THEN /\ out' = [out EXCEPT ![p] =
                              Append(@, Line("stderr", FolderExistsMessage(projectName(p))))]
                 /\ Exits(p, 1)
            ELSE /\ pc' = [pc EXCEPT ![p] = "mkdirProject"]
                 /\ UNCHANGED <<out, exit>>
  /\ UNCHANGED <<disk, argv>>

\* mkdirSync(path), then the statement `next`
Mkdir(p, path, next) ==
  LET err == MkdirErr(disk, path)
  IN  /\ ops' = [ops EXCEPT ![p] = Append(@, Call("mkdirSync", path, <<>>, err, 0))]
      /\ IF err = ""
         THEN /\ disk' = Put(disk, path, Dir)
              /\ pc' = [pc EXCEPT ![p] = next]
              /\ UNCHANGED <<out, exit>>
         ELSE /\ Throws(p, err)
              /\ UNCHANGED disk
      /\ UNCHANGED argv

\* writeFileSync(path, data), then the statement `next`
WriteFile(p, path, data, next) ==
  LET err == WriteErr(disk, path)
  IN  /\ ops' = [ops EXCEPT ![p] = Append(@, Call("writeFileSync", path, <<>>, err, 0))]
      /\ IF err = ""
         THEN /\ disk' = Put(disk, path, File(data))
              /\ pc' = [pc EXCEPT ![p] = next]
              /\ UNCHANGED <<out, exit>>
         ELSE /\ Throws(p, err)
              /\ UNCHANGED disk
      /\ UNCHANGED argv

MkdirProject(p) ==
  /\ pc[p] = "mkdirProject"
  /\ Mkdir(p, projectPath(p), "mkdirSrc")

MkdirSrc(p) ==
  /\ pc[p] = "mkdirSrc"
  /\ Mkdir(p, srcPath(p), "writeIndexHtml")

WriteIndexHtml(p) ==
  /\ pc[p] = "writeIndexHtml"
  /\ WriteFile(p, Under(projectPath(p), "index.html"),
               trim(indexHtml(projectName(p))), "writeAppJs")

WriteAppJs(p) ==
  /\ pc[p] = "writeAppJs"
  /\ WriteFile(p, Under(srcPath(p), "app.js"), trim(appJs), "writeWebpackConfig")

\* Mutant of WriteWebpackConfig: the install is started before package.json
\* is written
WriteWebpackConfig_ThenInstall(p) ==
  /\ pc[p] = "writeWebpackConfig"
  /\ WriteFile(p, Under(projectPath(p), "webpack.config.js"),
               trim(webpackConfig), "install")

WriteWebpackConfig(p) ==
  /\ pc[p] = "writeWebpackConfig"
  /\ WriteFile(p, Under(projectPath(p), "webpack.config.js"),
               trim(webpackConfig), "writePackageJson")

WritePackageJson(p) ==
  /\ pc[p] = "writePackageJson"
  /\ WriteFile(p, Under(projectPath(p), "package.json"),
               JSONstringify(pkg(projectName(p))), "install")

\* console.log(announce); execSync(cmd, {cwd: projectPath, stdio: "inherit"})
\* starts the subprocess: the invocation then waits inside execSync, at
\* `waiting`, until the subprocess has ended.
Exec(p, announce, waiting) ==
  /\ out' = [out EXCEPT ![p] = Append(@, Line("stdout", announce))]
  /\ pc' = [pc EXCEPT ![p] = waiting]
  /\ UNCHANGED <<disk, argv, ops, exit>>

\* The subprocess has ended with `status`: execSync returns when the status
\* is 0 and throws otherwise, and nothing catches what it throws.
ExecReturns(p, cmd, status, next) ==
  /\ ops' = [ops EXCEPT ![p] =
               Append(@, Call("execSync", projectPath(p), cmd,
                              IF status = 0 THEN "" ELSE "Command failed", status))]
  /\ IF status = 0
     THEN /\ pc' = [pc EXCEPT ![p] = next]
          /\ UNCHANGED <<out, exit>>
     ELSE Throws(p, "Command failed")
  /\ UNCHANGED <<disk, argv>>

\* What a running subprocess leaves in its working directory, as far as the
\* script fixes it: `npm install` the dependency tree the import map of
\* index.html points into and the lock file, `npm run build` the bundle
\* that webpack.config.js places in dist.
InstallOutput(dir) ==
  (Under(dir, "node_modules") :> Dir) @@ (Under(dir, "package-lock.json") :> File(<<"lock">>))

BuildOutput(dir) ==
  (Under(dir, "dist") :> Dir)
    @@ (Under(Under(dir, "dist"), "lib.bundle.js") :> File(<<"bundle">>))

\* the subprocess of invocation p writes `made` below the project directory
\* (it may also end without having written anything)
SubprocessWrites(p, made) ==
  /\ \E q \in DOMAIN made : q \notin DOMAIN disk
  /\ projectPath(p) \in DOMAIN disk
  /\ disk' = [q \in DOMAIN disk \cup DOMAIN made |->
                IF q \in DOMAIN made THEN made[q] ELSE disk[q]]
  /\ UNCHANGED <<pc, argv, ops, out, exit>>

Install(p) ==
  /\ pc[p] = "install"
  /\ Exec(p, <<"Installing dependencies...">>, "installing")

InstallWrites(p) ==
  /\ pc[p] = "installing"
  /\ SubprocessWrites(p, InstallOutput(projectPath(p)))

\* Mutant of InstallReturns: the failure of the subprocess is caught and
\* ignored
InstallReturns_Swallowed(p, status) ==
  /\ pc[p] = "installing"
  /\ ops' = [ops EXCEPT ![p] =
               Append(@, Call("execSync", projectPath(p), <<"npm install">>,
                              IF status = 0 THEN "" ELSE "Command failed", status))]
  /\ pc' = [pc EXCEPT ![p] = "build"]
  /\ UNCHANGED <<disk, argv, out, exit>>

InstallReturns(p, status) ==
  /\ pc[p] = "installing"
  /\ ExecReturns(p, <<"npm install">>, status, "build")

Build(p) ==
  /\ pc[p] = "build"
  /\ Exec(p, <<"Building Nodality bundle...">>, "building")

BuildWrites(p) ==
  /\ pc[p] = "building"
  /\ SubprocessWrites(p, BuildOutput(projectPath(p)))

\* Mutant of BuildReturns: the failure of the subprocess is caught and
\* ignored
BuildReturns_Swallowed(p, status) ==
  /\ pc[p] = "building"
  /\ ops' = [ops EXCEPT ![p] =
               Append(@, Call("execSync", projectPath(p), <<"npm run build">>,
                              IF status = 0 THEN "" ELSE "Command failed", status))]
  /\ pc' = [pc EXCEPT ![p] = "report"]
  /\ UNCHANGED <<disk, argv, out, exit>>

BuildReturns(p, status) ==
  /\ pc[p] = "building"
  /\ ExecReturns(p, <<"npm run build">>, status, "report")

\* console.log(format, arg): the first %s of the format is replaced by arg
RECURSIVE Format(_, _)
Format(fmt, arg) ==
  IF fmt = <<>> THEN <<>>
  ELSE IF Head(fmt) = "%s" THEN arg \o Tail(fmt)
  ELSE <<Head(fmt)>> \o Format(Tail(fmt), arg)

bold == "\\x1b[1m"
color1abc9c == "\\x1b[38;5;37m"
reset == "\\x1b[0m"

Banner(name) ==
  Format(<<"\n", color1abc9c, bold, "%s", reset, "\n">>,
         <<"Project \"">> \o name \o <<"\" is ready! ", "(emoji)">>)

UsageHint(name) ==
  << Line("stdout", <<"\n", "Usage:", "\n">>),
     Line("stdout", <<"  cd ">> \o name),
     Line("stdout", <<"  npm run build      # Rebuild library bundle">>),
     Line("stdout", <<"  npm run dev        # Start dev server with live reload">>),
     Line("stdout", <<"  npm start          # Serve project without watch">>) >>

Report(p) ==
  /\ pc[p] = "report"
  /\ out' = [out EXCEPT ![p] =
               Append(@, Line("stdout", Banner(projectName(p)))) \o UsageHint(projectName(p))]
  /\ Exits(p, 0)
  /\ UNCHANGED <<disk, argv, ops>>

Step(p) ==
  \/ CheckExists(p)
  \/ MkdirProject(p)
  \/ MkdirSrc(p)
  \/ WriteIndexHtml(p)
  \/ WriteAppJs(p)
  \/ WriteWebpackConfig(p)
  \/ WritePackageJson(p)
  \/ Install(p)
  \/ InstallWrites(p)
  \/ \E status \in Statuses : InstallReturns(p, status)
  \/ Build(p)
  \/ BuildWrites(p)
  \/ \E status \in Statuses : BuildReturns(p, status)
  \/ Report(p)

\* Runs one after the other
Next ==
  \E p \in Procs :
    \/ RunInARow(p)
    \/ Step(p)

Spec == Init /\ [][Next]_vars

\* Invocations with the same arguments, interleaved statement by statement
NextConc ==
  \E p \in Pair :
    \/ RunConcurrently(p)
    \/ Step(p)

SpecConc == Init /\ [][NextConc]_vars

\* ============================================================== properties
\* sub occurs in text as a run of consecutive tokens
Contains(text, sub) ==
  \E i \in 0..(Len(text) - Len(sub)) : SubSeq(text, i + 1, i + Len(sub)) = sub

\* invocation p has made a successful call of `op` on `path`
Did(p, op, path) ==
  \E i \in 1..Len(ops[p]) :
    ops[p][i].op = op /\ ops[p][i].path = path /\ ops[p][i].err = ""

\* the positions in ops[p] of the calls of `op`
CallsOf(p, op) == {i \in 1..Len(ops[p]) : ops[p][i].op = op}

\* the positions in ops[p] of the runs of the subprocess `cmd`
RunsOf(p, cmd) == {i \in CallsOf(p, "execSync") : ops[p][i].cmd = cmd}

\* the entries of the disk strictly below `dir`, relative to it
Below(d, dir) ==
  {SubSeq(q, Len(dir) + 1, Len(q)) :
     q \in {r \in DOMAIN d : Len(r) > Len(dir) /\ SubSeq(r, 1, Len(dir)) = dir}}

\* the generated layout: four files and the src subdirectory
Layout ==
  { << <<"index.html">> >>, << <<"s", "r", "c">> >>,
    << <<"s", "r", "c">>, <<"app.js">> >>,
    << <<"webpack.config.js">> >>, << <<"package.json">> >> }

\* the generated layout is on the disk below `dir` (beside what npm and the
\* bundler may have added)
HasLayout(d, dir) ==
  /\ dir \in DOMAIN d /\ d[dir].kind = "dir"
  /\ Layout \subseteq Below(d, dir)
  /\ \A r \in Layout :
       d[dir \o r].kind = (IF r = << <<"s", "r", "c">> >> THEN "dir" ELSE "file")

\* the paths invocation p has created, by mkdirSync or writeFileSync
Created(p) ==
  {ops[p][i].path : i \in {j \in 1..Len(ops[p]) :
      ops[p][j].op \in {"mkdirSync", "writeFileSync"} /\ ops[p][j].err = ""}}

\* the name was given: a first argument that is not empty
Named(p) == pc[p] # "idle" /\ argv[p] # <<>> /\ argv[p] # << <<>> >>

\* the literal path ./n below the working directory
DotPath(n) == Normalize(Cwd, Split(n))

BannerPrinted(p) ==
  \E i \in 1..Len(out[p]) : Contains(out[p][i].text, <<"\" is ready! ">>)

\* ---------------------------------------------------------------------- C1
\* C1: when the resolved path of the project name already exists (as a file
\* or as a directory, empty or not), the existence check ends the run: it
\* prints on stderr an error that names the project and says "already
\* exists", exits with code 1, leaves the disk as it was, and the run has
\* made no call but existsSync (no mkdir, no write, no subprocess); a
\* terminated run does nothing more.
C1_ExistingPathRejected ==
  [][\A p \in Procs :
       /\ (/\ pc[p] = "createProject"
           /\ projectPath(p) \in DOMAIN disk
           /\ pc'[p] # pc[p])
          => /\ pc'[p] = "exited"
             /\ exit'[p] = <<1>>
             /\ disk' = disk
             /\ Len(ops'[p]) = 1 /\ ops'[p][1].op = "existsSync"
             /\ Len(out'[p]) = 1 /\ out'[p][1].stream = "stderr"
             /\ Contains(out'[p][1].text, projectName(p))
             /\ Contains(out'[p][1].text, <<" already exists.">>)
       /\ pc[p] = "exited"
          => pc'[p] = "exited" /\ ops'[p] = ops[p] /\ out'[p] = out[p] /\ exit'[p] = exit[p]
    ]_vars

\* a second run was rejected on the non-empty directory the first run left
C1_Witness ==
  /\ pc[2] = "exited" /\ exit[2] = <<1>>
  /\ Len(ops[2]) = 1 /\ ops[2][1].op = "existsSync" /\ ops[2][1].val = 1
  /\ HasLayout(disk, projectPath(2))

\* ---------------------------------------------------------------------- C2
\* C2: an invocation with no argument, or with an empty first argument, has
\* printed the usage message on stderr and exited with code 1 without any
\* filesystem or subprocess call (createProject is not entered), and the disk
\* is as it was before the first invocation.
C2_MissingNameUsage ==
  \A p \in Procs :
    (pc[p] # "idle" /\ (argv[p] = <<>> \/ argv[p] = << <<>> >>))
      => /\ pc[p] = "exited"
         /\ exit[p] = <<1>>
         /\ ops[p] = <<>>
         /\ out[p] = <<Line("stderr", <<"Usage: npm create nodality <project-name>">>)>>
         /\ disk \in InitDisks

\* the tool was run with an empty first argument
C2_Witness == pc[1] = "exited" /\ argv[1] = << <<>> >> /\ exit[1] = <<1>>

\* ---------------------------------------------------------------------- C3
\* C3: for every non-empty name n whose path ./n did not exist, the finished
\* run has created directory ./n holding exactly index.html, src/app.js,
\* webpack.config.js, package.json and the src subdirectory (it has created
\* these and nothing else, and they are on the disk), and it exited with 0
\* only if install and build both exited with 0.  (Stated for the names
\* whose resolved path is ./n.)
C3_FreshNameCreatesLayout ==
  \A p \in Procs :
    (/\ pc[p] = "exited" /\ Named(p)
     /\ ops[p] # <<>>
     /\ ops[p][1].op = "existsSync" /\ ops[p][1].val = 0
     /\ ops[p][1].path = DotPath(projectName(p)))
      => /\ HasLayout(disk, DotPath(projectName(p)))
         /\ Created(p) = {DotPath(projectName(p))}
                            \cup {DotPath(projectName(p)) \o r : r \in Layout}
         /\ exit[p] = <<0>> =>
              /\ \E i \in RunsOf(p, <<"npm install">>) : ops[p][i].val = 0
              /\ \E i \in RunsOf(p, <<"npm run build">>) : ops[p][i].val = 0

\* ---------------------------------------------------------------------- C4
Rank(c) ==
  IF c.op = "existsSync" THEN 0
  ELSE IF c.op = "mkdirSync" THEN 1
  ELSE IF c.op = "writeFileSync" THEN 2
  ELSE IF c.cmd = <<"npm install">> THEN 3
  ELSE 4

\* C4: the calls of a run are in pipeline order: the existence check comes
\* first and precedes every mkdir and write; a subprocess is started only
\* once both directories are created and all four files are written; and
\* build is started only after install has returned, with status 0.  This
\* holds also while the run waits inside execSync for a subprocess.
C4_PipelineOrder ==
  \A p \in Procs :
    /\ ops[p] # <<>> =>
         ops[p][1].op = "existsSync" /\ (ops[p][1].val = 0 \/ Len(ops[p]) = 1)
    /\ \A i, j \in 1..Len(ops[p]) : i < j => Rank(ops[p][i]) <= Rank(ops[p][j])
    /\ Cardinality(CallsOf(p, "existsSync")) <= 1
    /\ (CallsOf(p, "execSync") # {} \/ pc[p] \in {"installing", "build", "building", "report"}) =>
         /\ Did(p, "mkdirSync", projectPath(p))
         /\ Did(p, "mkdirSync", srcPath(p))
         /\ Did(p, "writeFileSync", Under(projectPath(p), "index.html"))
         /\ Did(p, "writeFileSync", Under(srcPath(p), "app.js"))
         /\ Did(p, "writeFileSync", Under(projectPath(p), "webpack.config.js"))
         /\ Did(p, "writeFileSync", Under(projectPath(p), "package.json"))
    /\ \A j \in RunsOf(p, <<"npm run build">>) :
         \E i \in RunsOf(p, <<"npm install">>) : i < j /\ ops[p][i].val = 0
    /\ pc[p] \in {"install", "installing"} => CallsOf(p, "execSync") = {}
    /\ pc[p] \in {"build", "building"} =>
         /\ RunsOf(p, <<"npm run build">>) = {}
         /\ \E i \in RunsOf(p, <<"npm install">>) : ops[p][i].val = 0

\* a run waits for the build it has started, after an install that wrote
\* its output
C4_Witness ==
  \E p \in Procs :
    /\ pc[p] = "building"
    /\ Under(projectPath(p), "node_modules") \in DOMAIN disk

\* ---------------------------------------------------------------------- C5
\* C5: a subprocess step that exits non-zero is the last call of its run
\* (no retry, no later step), the run has terminated with exit code 1, and
\* the directories and the four files written before are still on the disk
\* with the contents written.
C5_SubprocessFailureFatal ==
  \A p \in Procs :
    \A i \in CallsOf(p, "execSync") :
      ops[p][i].val # 0
        => /\ i = Len(ops[p])
           /\ Cardinality(RunsOf(p, ops[p][i].cmd)) = 1
           /\ pc[p] = "exited" /\ exit[p] = <<1>>
           /\ HasLayout(disk, projectPath(p))
           /\ disk[Under(projectPath(p), "index.html")].content
                = trim(indexHtml(projectName(p)))
           /\ disk[Under(srcPath(p), "app.js")].content = trim(appJs)
           /\ disk[Under(projectPath(p), "webpack.config.js")].content
                = trim(webpackConfig)
           /\ disk[Under(projectPath(p), "package.json")].content
                = JSONstringify(pkg(projectName(p)))

\* install exited with status 2, and the run was followed by another one
C5_Witness ==
  /\ Len(ops[1]) = 8 /\ ops[1][8].cmd = <<"npm install">> /\ ops[1][8].val = 2
  /\ pc[2] = "exited"

\* ---------------------------------------------------------------------- C6
\* C6: a run that follows a run with the same name fails with the
\* path-exists error (and so overwrites nothing).
C6_SecondRunPathExists ==
  \A p \in Procs :
    (p > 1 /\ pc[p] = "exited" /\ Named(p) /\ argv[p - 1] = argv[p])
      => /\ exit[p] = <<1>>
         /\ Len(out[p]) = 1
         /\ Contains(out[p][1].text, <<" already exists.">>)

\* ---------------------------------------------------------------------- C7
\* the package.json written by invocation p, parsed
Manifest(p) == JSONparse(disk[Under(projectPath(p), "package.json")].content)

\* the manifest written for another project name, parsed
OtherManifest == JSONparse(JSONstringify(pkg(<<"x">>)))

IsCaretRange(v) == v.t = "str" /\ Len(v.s) > 1 /\ v.s[1] = "^"

\* C7: the package.json a run has written parses as JSON; its scripts are
\* exactly build, watch, start and dev, its dependencies are exactly
\* nodality: latest, its devDependencies are exactly nine entries, each a
\* caret range; and the three mappings are those of the manifest written for
\* any other project name.
C7_ManifestShape ==
  \A p \in Procs :
    (Named(p) /\ Did(p, "writeFileSync", Under(projectPath(p), "package.json")))
      => LET r == Manifest(p)
         IN  /\ r.ok /\ r.v.t = "obj"
             /\ HasKey(r.v, <<"scripts">>)
             /\ HasKey(r.v, <<"dependencies">>)
             /\ HasKey(r.v, <<"devDependencies">>)
             /\ Len(Get(r.v, <<"scripts">>).m) = 4
             /\ Keys(Get(r.v, <<"scripts">>))
                  = {<<"build">>, <<"watch">>, <<"start">>, <<"dev">>}
             /\ Get(r.v, <<"dependencies">>).m
                  = <<Member(<<"nodality">>, Str(<<"latest">>))>>
             /\ Len(Get(r.v, <<"devDependencies">>).m) = 9
             /\ Cardinality(Keys(Get(r.v, <<"devDependencies">>))) = 9
             /\ \A j \in 1..9 : IsCaretRange(Get(r.v, <<"devDependencies">>).m[j].v)
             /\ \A k \in {<<"scripts">>, <<"dependencies">>, <<"devDependencies">>} :
                  Get(r.v, k) = Get(OtherManifest.v, k)

\* the manifest of a project whose name holds a double quote was written
C7_Witness ==
  \E p \in Procs :
    /\ Named(p) /\ pc[p] = "install"
    /\ \E i \in 1..Len(projectName(p)) : projectName(p)[i] = "\""

\* ---------------------------------------------------------------------- C8
\* C8: once a run has written its files, the name field of the parsed
\* package.json is the project name, the text of index.html holds
\* <title>, the project name and </title> in a row, and app.js and
\* webpack.config.js hold their fixed text.
C8_NameInManifestAndTitle ==
  \A p \in Procs :
    (Named(p) /\ Did(p, "writeFileSync", Under(projectPath(p), "package.json")))
      => /\ LET r == Manifest(p)
             IN  /\ r.ok
                 /\ HasKey(r.v, <<"name">>)
                 /\ Get(r.v, <<"name">>) = Str(projectName(p))
         /\ Contains(disk[Under(projectPath(p), "index.html")].content,
                     <<"<title>">> \o projectName(p) \o <<"</title>">>)
         /\ disk[Under(srcPath(p), "app.js")].content = trim(appJs)
         /\ disk[Under(projectPath(p), "webpack.config.js")].content = trim(webpackConfig)

\* the files of a project named "/ (a quote, then a slash) were written
C8_Witness ==
  \E p \in Procs :
    /\ Named(p) /\ projectName(p) = <<"\"", "/">>
    /\ Did(p, "writeFileSync", Under(projectPath(p), "package.json"))

\* ---------------------------------------------------------------------- C9
\* the last lines printed by p are the banner naming the project and the
\* usage hint with the three script aliases
ReportPrinted(p) ==
  LET n == Len(out[p])
  IN  /\ n >= 6
      /\ Contains(out[p][n - 5].text,
                  <<"Project \"">> \o projectName(p) \o <<"\" is ready! ">>)
      /\ out[p][n - 2].text = <<"  npm run build      # Rebuild library bundle">>
      /\ out[p][n - 1].text = <<"  npm run dev        # Start dev server with live reload">>
      /\ out[p][n].text = <<"  npm start          # Serve project without watch">>

\* C9: a run that has exited with 0 ran install and build with status 0 and
\* printed, last, the banner with the project name and the usage hint; a run
\* that is still running or has exited with another code (missing name,
\* existing path, failed mkdir, failed install or build) has printed no
\* banner.
C9_BannerOnlyOnSuccess ==
  \A p \in Procs :
    /\ exit[p] = <<0>>
         => /\ ReportPrinted(p)
            /\ \E i \in RunsOf(p, <<"npm install">>) : ops[p][i].val = 0
            /\ \E i \in RunsOf(p, <<"npm run build">>) : ops[p][i].val = 0
            /\ \A i \in CallsOf(p, "execSync") : ops[p][i].val = 0
    /\ exit[p] # <<0>> => ~BannerPrinted(p)
    /\ (/\ pc[p] = "exited"
        /\ RunsOf(p, <<"npm run build">>) # {}
        /\ \A i \in CallsOf(p, "execSync") : ops[p][i].val = 0)
         => exit[p] = <<0>>

\* a run has succeeded and printed the banner, and the next run has failed
C9_Witness ==
  /\ exit[1] = <<0>> /\ BannerPrinted(1)
  /\ exit[2] = <<1>> /\ ~BannerPrinted(2)

\* --------------------------------------------------------------------- C10
PassedCheck(p) == ops[p] # <<>> /\ ops[p][1].op = "existsSync" /\ ops[p][1].val = 0

\* C10: of two concurrent invocations with the same name, at most one has
\* created the project directory, and only that one has made a write call;
\* the other one, also when it passed the existence check, has had mkdirSync
\* fail, has written nothing and, once terminated, has exit code 1.
C10_AtMostOneCreates ==
  LET creators == {p \in Pair : Named(p) /\ Did(p, "mkdirSync", projectPath(p))}
  IN  /\ Cardinality(creators) <= 1
      /\ \A p \in Pair :
           (Named(p) /\ p \notin creators)
             => /\ CallsOf(p, "writeFileSync") = {}
                /\ CallsOf(p, "execSync") = {}
                /\ pc[p] = "exited" => exit[p] = <<1>>

\* both invocations passed the existence check, one created the directory
\* and the other one's mkdirSync failed with EEXIST
C10_Witness ==
  /\ PassedCheck(1) /\ PassedCheck(2)
  /\ Did(2, "mkdirSync", projectPath(2))
  /\ Len(ops[1]) = 2 /\ ops[1][2].err = "EEXIST"
  /\ exit[1] = <<1>>

====
